---- MODULE Spec2Model ----
(***************************************************************************)
(* keygen: keyboard layouts (layout.rs) and their penalty (penalty.rs).    *)
(*                                                                         *)
(* Characters are Unicode code points (Rust `char`), positions are the     *)
(* 0-based indices of KeyMap<T>([T; 108]).  A Layout is a function         *)
(* [0..107 -> code point]; '\0' is code point 0, ' ' is 32.                *)
(***************************************************************************)
EXTENDS Integers, Sequences, FiniteSets, TLC

(* ------------------------------------------------------------------ *)
(* layout.rs: types and statics                                       *)
(* ------------------------------------------------------------------ *)

\* pub struct KeyMap<T>(pub [T; 108])
KeyMapLen == 108

\* `% 81` / `0..81`: the letter-bearing positions of rows 0..2
LetterSlots == 81

\* index % 9 = relative location in key
SubPositions == 9

\* relative location 8 is the tap
TapSub == 8

\* `[None; 128]`, `kc < (128 as char)`
PosMapLen == 128

Positions == 0..(KeyMapLen - 1)

KeyMapOf(t) == [p \in Positions |-> t[p + 1]]

INIT_LAYOUT ==
  KeyMapOf(<<
      0,  99,   0,   0,   0,   0,   0,   0, 114,
    122,   0, 107,   0,   0,   0,   0,   0, 115,
      0,   0,   0,   0,   0,   0,   0,   0, 105,
    108,   0, 118,   0,   0,   0, 120,   0, 110,
      0, 100,   0, 103,   0, 112,   0, 102, 111,
      0,   0, 121,   0, 117,   0,   0,   0,  97,
    109,   0,   0,   0,   0,   0, 106,   0, 104,
      0,  44,   0,   0,   0,  98,   0, 119, 116,
      0,   0,  46,   0,   0,  39,   0, 113, 101,
      0,   0,   0,   0,   0,   0,   0,   0,   0,
      0,   0,   0,   0,   0,   0,   0,   0,   0,
      0,   0,   0,   0,   0,   0,   0,   0,  32 >>)

RSINOA_LAYOUT ==
  KeyMapOf(<<
      0, 118,   0,   0,   0,   0,   0,   0, 114,
    122,   0, 107,   0,   0,   0,   0,   0, 115,
      0,   0,   0,   0,   0,   0,   0,   0, 105,
    108,   0, 120,   0,   0,   0, 106,   0, 110,
    102,   0, 103,   0,   0,   0, 112,   0, 111,
      0,   0, 121,   0, 117,   0,   0,   0,  97,
    109,   0,   0,   0,   0,   0,  99,   0, 104,
      0, 100,   0,  46,   0,  98,   0, 119, 116,
      0,   0,  44,   0,  39,   0, 113,   0, 101,
      0,   0,   0,   0,   0,   0,   0,   0,   0,
      0,   0,   0,   0,   0,   0,   0,   0,   0,
      0,   0,   0,   0,   0,   0,   0,   0,  32 >>)

\* Option<T>
None == [tag |-> "None"]
Some(v) == [tag |-> "Some", val |-> v]

(* ------------------------------------------------------------------ *)
(* layout.rs: impls                                                   *)
(* ------------------------------------------------------------------ *)

\* fn is_tap(key: usize) -> bool
is_tap(key) == key % SubPositions = TapSub

\* <[char]>::swap(a, b) on the layer of a Layout
swap(layer, a, b) == [layer EXCEPT ![a] = layer[b], ![b] = layer[a]]

\* usize arguments of LayoutPermutations::new seen by the callers
MaxSwapsArg == 3

SwapsArgs == 1..MaxSwapsArg

\* the k loop without its class test
new_loop_k_any_class(i, j) == [t \in 1..(LetterSlots - j) |-> <<i, j, j + t - 1>>]

\* inner `for k in j..81 { if is_tap(j) == is_tap(k) { swaps.push((i, j, k)) } }`
new_loop_k(i, j) ==
  SelectSeq([t \in 1..(LetterSlots - j) |-> <<i, j, j + t - 1>>],
            LAMBDA e : is_tap(j) = is_tap(e[3]))

RECURSIVE new_loop_j(_, _)
\* `for j in (i + 1)..81 { if is_tap(i) == is_tap(j) { ... } }`
new_loop_j(i, j) ==
  IF j >= LetterSlots THEN << >>
  ELSE (IF is_tap(i) = is_tap(j) THEN new_loop_k(i, j) ELSE << >>)
         \o new_loop_j(i, j + 1)

RECURSIVE new_loop_i(_)
\* `for i in 0..81 { ... }`
new_loop_i(i) ==
  IF i >= LetterSlots THEN << >> ELSE new_loop_j(i, i + 1) \o new_loop_i(i + 1)

\* a constructor that reads its second argument: depth 1 keeps the single swaps
new_swaps_by_depth(num_swaps) ==
  IF num_swaps = 1
    THEN SelectSeq(new_loop_i(0), LAMBDA e : e[2] = e[3])
    ELSE new_loop_i(0)

\* LayoutPermutations::new(layout, _): the `swaps` vector it builds; the
\* second argument is not read
new_swaps(num_swaps) == new_loop_i(0)

\* the `swaps` field of the generator built with each argument value; it is
\* never written after construction
swaps_of == [n \in SwapsArgs |-> new_swaps(n)]

\* pub static KP_NONE: Option<KeyPress> = None
KP_NONE == None

\* Layout::get_position_map: `for (pos, c) in layer.into_iter().enumerate()
\* { if *c < 128 { map[*c as usize] = Some(KeyPress { pos }) } }`; the loop
\* overwrites, so a character keeps the last position that holds it
get_position_map(layer) ==
  [c \in 0..(PosMapLen - 1) |->
     LET held == {pos \in Positions : layer[pos] = c}
     IN  IF held = {} THEN None
         ELSE Some([pos |-> CHOOSE pos \in held : \A q \in held : q <= pos])]

\* LayoutPosMap::get_key_position
get_key_position(map, kc) == IF kc < PosMapLen THEN map[kc] ELSE KP_NONE

(* ------------------------------------------------------------------ *)
(* str: a string is its UTF-8 bytes; slices are taken at byte offsets *)
(* ------------------------------------------------------------------ *)

\* char::encode_utf8
encode_utf8(c) ==
  IF c < 128 THEN <<c>>
  ELSE IF c < 2048 THEN <<192 + (c \div 64), 128 + (c % 64)>>
  ELSE IF c < 65536
    THEN <<224 + (c \div 4096), 128 + ((c \div 64) % 64), 128 + (c % 64)>>
    ELSE <<240 + (c \div 262144), 128 + ((c \div 4096) % 64),
           128 + ((c \div 64) % 64), 128 + (c % 64)>>

RECURSIVE to_string(_)
\* the String holding the characters cs
to_string(cs) == IF cs = << >> THEN << >> ELSE encode_utf8(Head(cs)) \o to_string(Tail(cs))

\* width of the UTF-8 sequence that starts with byte b
utf8_width(b) == IF b < 128 THEN 1 ELSE IF b < 224 THEN 2 ELSE IF b < 240 THEN 3 ELSE 4

\* the code point of the sequence at the head of s
decode_first(s) ==
  LET w == utf8_width(s[1])
  IN  IF w = 1 THEN s[1]
      ELSE IF w = 2 THEN (s[1] - 192) * 64 + (s[2] - 128)
      ELSE IF w = 3 THEN ((s[1] - 224) * 64 + (s[2] - 128)) * 64 + (s[3] - 128)
      ELSE (((s[1] - 240) * 64 + (s[2] - 128)) * 64 + (s[3] - 128)) * 64 + (s[4] - 128)

RECURSIVE chars(_)
\* str::chars
chars(s) ==
  IF s = << >> THEN << >>
  ELSE <<decode_first(s)>> \o chars(SubSeq(s, utf8_width(s[1]) + 1, Len(s)))

\* str::is_char_boundary
is_char_boundary(s, idx) ==
  \/ idx = 0
  \/ idx = Len(s)
  \/ idx < Len(s) /\ ~(s[idx + 1] >= 128 /\ s[idx + 1] < 192)

\* `&string[start..end]`: Some(the slice), or None where the index panics
str_slice(s, start, end) ==
  IF start <= end /\ end <= Len(s) /\ is_char_boundary(s, start) /\ is_char_boundary(s, end)
    THEN Some(SubSeq(s, start + 1, end))
    ELSE None

(* ------------------------------------------------------------------ *)
(* penalty.rs: f64 amounts are kept in thousandths                    *)
(* ------------------------------------------------------------------ *)

\* 1.0 in thousandths
UNIT == 1000

\* pub fn init(): the names of the five penalties
penalties ==
  << "base penalty", "swipe penalty", "thumb travel distance penalty",
     "length 3 alternation bonus", "length 4 alternation bonus" >>

\* pub static BASE_TAP_PENALTY: [[f64; 3]; 4]
BASE_TAP_PENALTY ==
  << <<200, 150, 100>>,
     <<150, 100, 50>>,
     <<100, 50, 0>>,
     <<0, 0, 0>> >>

\* pub static SWIPE_PENALTY: f64 = 0.5
SWIPE_PENALTY == 500

\* pub static A: f64 = 0.127
A == 127

\* pub static D_SWIPE: f64 = 1.3
D_SWIPE == 1300

\* pub static LENGTH_3_ALTERNATION_BONUS: f64 = 0.2
LENGTH_3_ALTERNATION_BONUS == 200

\* pub static LENGTH_4_ALTERNATION_BONUS: f64 = 0.3
LENGTH_4_ALTERNATION_BONUS == 300

Max(a, b) == IF a >= b THEN a ELSE b

RECURSIVE sqrt_search(_, _, _)
\* largest r in lo..hi with r * r <= n
sqrt_search(n, lo, hi) ==
  IF lo >= hi THEN lo
  ELSE LET mid == (lo + hi + 1) \div 2
       IN  IF mid * mid <= n THEN sqrt_search(n, mid, hi) ELSE sqrt_search(n, lo, mid - 1)

\* f64::sqrt of n millionths, in thousandths
sqrt(n) == sqrt_search(n, 0, 46340)

RECURSIVE log2_int(_)
\* number of halvings that bring x (thousandths, >= 1.0) below 2.0
log2_int(x) == IF x < 2 * UNIT THEN 0 ELSE 1 + log2_int(x \div 2)

RECURSIVE halve(_, _)
halve(x, n) == IF n = 0 THEN x ELSE halve(x \div 2, n - 1)

RECURSIVE log2_frac(_, _)
\* the binary digits of log2(m / 10000) for m in [10000, 20000), by repeated
\* squaring; bit is the weight (in 1/1024) of the digit decided next
log2_frac(m, bit) ==
  IF bit = 0 THEN 0
  ELSE LET sq == (m * m) \div 10000
       IN  IF sq >= 20000
             THEN bit + log2_frac(sq \div 2, bit \div 2)
             ELSE log2_frac(sq, bit \div 2)

\* f64::log2 of x thousandths (x >= 1.0), in thousandths
log2(x) ==
  LET n == log2_int(x)
      m == halve(x * 10, n)
  IN  n * UNIT + (log2_frac(m, 512) * UNIT) \div 1024

\* fn fitts_law(dist: f64, width: f64) -> f64
fitts_law(dist, width) ==
  Max(A, (log2((dist * UNIT) \div width + UNIT) * 10) \div 49)

\* fn square(x: f64) -> f64, the product kept in millionths
square(x) == x * x

\* fn distance(point0, point1) -> f64
distance(point0, point1) ==
  sqrt(square(point0[1] - point1[1]) + square(point0[2] - point1[2]))

\* fn get_coordinates(key: &KeyPress) -> (f64, f64)
get_coordinates(key) ==
  LET spot == key.pos \div SubPositions
  IN  <<(spot \div 3) * UNIT, (spot % 3) * UNIT>>

\* fn get_base_tap_penalty(key: &KeyPress) -> f64
get_base_tap_penalty(key) ==
  LET spot == key.pos \div SubPositions
  IN  BASE_TAP_PENALTY[(spot \div 3) + 1][(spot % 3) + 1]

\* penalty.rs: fn is_tap(key: &KeyPress) -> bool
key_is_tap(key) == key.pos % SubPositions = TapSub

\* fn get_column(key: &KeyPress) -> usize
get_column(key) == (key.pos \div SubPositions) % 3

\* fn is_left(column: usize) -> bool
is_left(column) == column = 0 \/ column = 1

\* fn is_right(column: usize) -> bool
is_right(column) == column = 2 \/ column = 1

\* f64::sin_cos((dir as f64) / 8.0 * 2.0 * PI) for dir = 0..7, in thousandths
sin_cos(dir) ==
  << <<0, 707, 1000, 707, 0, -707, -1000, -707>>[dir + 1],
     <<1000, 707, 0, -707, -1000, -707, 0, 707>>[dir + 1] >>

\* get_swipe_details: the index of `layout.get(spot * 9 + ((dir + 1) % 8))`
next_slot(old1) ==
  (old1.pos \div SubPositions) * SubPositions + (((old1.pos % SubPositions) + 1) % 8)

\* get_swipe_details: the index of `layout.get(spot * 9 + ((dir + 7) % 8))`
prev_slot(old1) ==
  (old1.pos \div SubPositions) * SubPositions + (((old1.pos % SubPositions) + 7) % 8)

\* `layout.get(pos)`: indexing outside the KeyMap panics
layout_get(layout, pos) == IF pos \in Positions THEN Some(layout[pos]) ELSE None

\* get_swipe_details with the deltas of an occupied and an empty neighbour
\* exchanged
get_swipe_details_narrowing(old1, layout) ==
  LET dir == old1.pos % SubPositions
      start == get_coordinates(old1)
      sc == sin_cos(dir)
      end_of_swipe_coords ==
        <<start[1] + (D_SWIPE * sc[1]) \div UNIT, start[2] + (D_SWIPE * sc[2]) \div UNIT>>
      next_delta == IF layout_get(layout, next_slot(old1)).val # 0 THEN 4 ELSE 1
      prev_delta == IF layout_get(layout, prev_slot(old1)).val # 0 THEN -4 ELSE -1
      width == ((next_delta - prev_delta) * UNIT) \div 8
  IN  <<end_of_swipe_coords, width>>

\* fn get_swipe_details(old1: &KeyPress, layout: &Layout) -> ((f64, f64), f64)
get_swipe_details(old1, layout) ==
  LET dir == old1.pos % SubPositions
      start == get_coordinates(old1)
      sc == sin_cos(dir)
      end_of_swipe_coords ==
        <<start[1] + (D_SWIPE * sc[1]) \div UNIT, start[2] + (D_SWIPE * sc[2]) \div UNIT>>
      next_delta == IF layout_get(layout, next_slot(old1)).val # 0 THEN 1 ELSE 4
      prev_delta == IF layout_get(layout, prev_slot(old1)).val # 0 THEN -1 ELSE -4
      width == ((next_delta - prev_delta) * UNIT) \div 8
  IN  <<end_of_swipe_coords, width>>

\* a slice holds the character ' '
has_space(slice) == \E n \in 1..Len(chars(slice)) : chars(slice)[n] = 32

\* `*high_keys.entry(slice).or_insert(0.0) += amount`
add_high_key(high_keys, slice, amount) ==
  IF slice \in DOMAIN high_keys
    THEN [high_keys EXCEPT ![slice] = @ + amount]
    ELSE [s \in DOMAIN high_keys \cup {slice} |->
            IF s = slice THEN amount ELSE high_keys[s]]

\* `if detailed { *result[k].high_keys.entry(slice).or_insert(0.0) += amount;
\* result[k].total += amount; } total += amount;`
add_penalty(acc, k, slice, amount, detailed) ==
  [acc EXCEPT !.total = @ + amount,
              !.result = IF detailed /\ slice # None
                           THEN [@ EXCEPT ![k].total = @ + amount,
                                          ![k].high_keys =
                                            add_high_key(@, slice.val, amount)]
                           ELSE @]

\* the step did not index a str out of bounds or inside a character
no_panic(acc, slice) == [acc EXCEPT !.panicked = @ \/ slice = None]

\* the swipe branch adding to the total only
one_key_penalties_total_only(acc, string, count, curr, detailed) ==
  LET len == Len(string)
      slice1 == str_slice(string, len - 1, len)
      a == no_panic(acc, slice1)
  IN  IF key_is_tap(curr)
        THEN add_penalty(a, 1, slice1, get_base_tap_penalty(curr) * count, detailed)
        ELSE add_penalty(a, 2, slice1, SWIPE_PENALTY * count, FALSE)

\* penalize, "One key penalties"
one_key_penalties(acc, string, count, curr, detailed) ==
  LET len == Len(string)
      slice1 == str_slice(string, len - 1, len)
      a == no_panic(acc, slice1)
  IN  IF key_is_tap(curr)
        THEN add_penalty(a, 1, slice1, get_base_tap_penalty(curr) * count, detailed)
        ELSE add_penalty(a, 2, slice1, SWIPE_PENALTY * count, detailed)

\* penalize, "Two key penalties"
two_key_penalties(acc, string, count, curr, old1, detailed, layout) ==
  LET len == Len(string)
      slice2 == str_slice(string, len - 2, len)
      a == no_panic(acc, slice2)
      penalty ==
        IF key_is_tap(old1)
          THEN fitts_law(distance(get_coordinates(old1), get_coordinates(curr)), UNIT)
          ELSE LET d == get_swipe_details(old1, layout)
               IN  (fitts_law(D_SWIPE, d[2]) - A)
                     + fitts_law(distance(d[1], get_coordinates(curr)), UNIT)
  IN  add_penalty(a, 3, slice2, penalty * count, detailed)

\* the three-key bonus without `if col_old2 != col_old1 && col_old1 != col_curr`
three_key_penalties_no_column_test(acc, slice3, count, curr, old1, old2, detailed) ==
  LET col_old2 == get_column(old2)
      col_old1 == get_column(old1)
      col_curr == get_column(curr)
      first == IF is_right(col_old2) /\ is_left(col_old1) /\ is_right(col_curr)
                 THEN 0 - LENGTH_3_ALTERNATION_BONUS ELSE 0
      second == IF is_left(col_old2) /\ is_right(col_old1) /\ is_left(col_curr)
                  THEN 0 - LENGTH_3_ALTERNATION_BONUS ELSE 0
  IN  add_penalty(acc, 4, slice3, (first + second) * count, detailed)

\* penalize, "Three key penalties", after the test for ' '
three_key_penalties(acc, slice3, count, curr, old1, old2, detailed) ==
  LET col_old2 == get_column(old2)
      col_old1 == get_column(old1)
      col_curr == get_column(curr)
      first == IF is_right(col_old2) /\ is_left(col_old1) /\ is_right(col_curr)
                 THEN 0 - LENGTH_3_ALTERNATION_BONUS ELSE 0
      second == IF is_left(col_old2) /\ is_right(col_old1) /\ is_left(col_curr)
                  THEN 0 - LENGTH_3_ALTERNATION_BONUS ELSE 0
      penalty == IF col_old2 # col_old1 /\ col_old1 # col_curr THEN first + second ELSE 0
  IN  add_penalty(acc, 4, slice3, penalty * count, detailed)

\* penalize, "Four key penalties", after the test for ' '
four_key_penalties(acc, slice4, count, curr, old1, old2, old3, detailed) ==
  LET col_old3 == get_column(old3)
      col_old2 == get_column(old2)
      col_old1 == get_column(old1)
      col_curr == get_column(curr)
      first == IF is_left(col_old3) /\ is_right(col_old2) /\ is_left(col_old1)
                    /\ is_right(col_curr)
                 THEN 0 - LENGTH_4_ALTERNATION_BONUS ELSE 0
      second == IF is_right(col_old3) /\ is_left(col_old2) /\ is_right(col_old1)
                     /\ is_left(col_curr)
                  THEN 0 - LENGTH_4_ALTERNATION_BONUS ELSE 0
      penalty == IF col_old3 # col_old2 /\ col_old2 # col_old1 /\ col_old1 # col_curr
                   THEN first + second ELSE 0
  IN  add_penalty(acc, 5, slice4, penalty * count, detailed)

\* penalize from "Four key penalties" on; a3 is what the earlier terms gave
penalize_from_four(a3, string, count, curr, old1, old2, old3, detailed, slice4) ==
  IF slice4 = None THEN no_panic(a3, slice4)
  ELSE IF has_space(slice4.val) THEN a3
  ELSE four_key_penalties(a3, slice4, count, curr, old1.val, old2.val, old3.val, detailed)

\* penalize after the three-key term: `None => return total` for old3
penalize_after_three(a3, string, count, curr, old1, old2, old3, detailed) ==
  IF old3 = None THEN a3
  ELSE penalize_from_four(a3, string, count, curr, old1, old2, old3, detailed,
                          str_slice(string, Len(string) - 4, Len(string)))

\* penalize from "Three key penalties" on
penalize_from_three(a2, string, count, curr, old1, old2, old3, detailed, slice3) ==
  IF slice3 = None THEN no_panic(a2, slice3)
  ELSE IF has_space(slice3.val) THEN a2
  ELSE penalize_after_three(
         three_key_penalties(a2, slice3, count, curr, old1.val, old2.val, detailed),
         string, count, curr, old1, old2, old3, detailed)

\* penalize after the two-key term: `None => return total` for old2
penalize_after_two(a2, string, count, curr, old1, old2, old3, detailed) ==
  IF a2.panicked \/ old2 = None THEN a2
  ELSE penalize_from_three(a2, string, count, curr, old1, old2, old3, detailed,
                           str_slice(string, Len(string) - 3, Len(string)))

\* penalize after the one-key term: `None => return total` for old1
penalize_after_one(a1, string, count, curr, old1, old2, old3, detailed, layout) ==
  IF a1.panicked \/ old1 = None THEN a1
  ELSE penalize_after_two(
         two_key_penalties(a1, string, count, curr, old1.val, detailed, layout),
         string, count, curr, old1, old2, old3, detailed)

\* fn penalize: [total |-> the f64 returned, result |-> the updated vector,
\* panicked |-> a slice index failed]
penalize(string, count, curr, old1, old2, old3, result, detailed, layout) ==
  penalize_after_one(
    one_key_penalties([total |-> 0, result |-> result, panicked |-> FALSE],
                      string, count, curr, detailed),
    string, count, curr, old1, old2, old3, detailed, layout)

\* `chars.next()` of `string.chars().into_iter().rev()`, the n-th call
rev_next(cs, n) == IF n <= Len(cs) THEN Some(cs[Len(cs) + 1 - n]) ELSE None

\* penalty_for_quartad charging an unmapped current character as a swipe
penalty_for_quartad_unmapped_charged(string, count, position_map, result, detailed, layout) ==
  LET cs == chars(string)
      opt_curr == rev_next(cs, 1)
      opt_old1 == rev_next(cs, 2)
      opt_old2 == rev_next(cs, 3)
      opt_old3 == rev_next(cs, 4)
      old(opt) == IF opt = None THEN KP_NONE ELSE get_key_position(position_map, opt.val)
  IN  IF opt_curr = None
        THEN [total |-> 0, result |-> result, panicked |-> TRUE]
      ELSE IF get_key_position(position_map, opt_curr.val) = None
        THEN [total |-> SWIPE_PENALTY * count, result |-> result, panicked |-> FALSE]
      ELSE penalize(string, count, get_key_position(position_map, opt_curr.val).val,
                    old(opt_old1), old(opt_old2), old(opt_old3), result, detailed, layout)

\* fn penalty_for_quartad
penalty_for_quartad(string, count, position_map, result, detailed, layout) ==
  LET cs == chars(string)
      opt_curr == rev_next(cs, 1)
      opt_old1 == rev_next(cs, 2)
      opt_old2 == rev_next(cs, 3)
      opt_old3 == rev_next(cs, 4)
      old(opt) == IF opt = None THEN KP_NONE ELSE get_key_position(position_map, opt.val)
  IN  IF opt_curr = None
        THEN [total |-> 0, result |-> result, panicked |-> TRUE]
      ELSE IF get_key_position(position_map, opt_curr.val) = None
        THEN [total |-> 0, result |-> result, panicked |-> FALSE]
      ELSE penalize(string, count, get_key_position(position_map, opt_curr.val).val,
                    old(opt_old1), old(opt_old2), old(opt_old3), result, detailed, layout)

\* calculate_penalty: `if detailed { for penalty in penalties { result.push(..) } }`
new_result(detailed) ==
  IF detailed
    THEN [k \in 1..Len(penalties) |->
            [name |-> penalties[k], total |-> 0, high_keys |-> << >>]]
    ELSE << >>

\* the window keeps its start when it grows past four characters
clamp_start_never(range_start, range_end) == range_start

\* `if range.end > 3 && range.start < range.end - 4 { range.start = range.end - 4; }`
clamp_start(range_start, range_end) ==
  IF range_end > 3 /\ range_start < range_end - 4 THEN range_end - 4 ELSE range_start

\* `*quartads.entry(quartad).or_insert(0) += 1`
count_quartad(q, quartad) ==
  IF quartad \in DOMAIN q
    THEN [q EXCEPT ![quartad] = @ + 1]
    ELSE [k \in DOMAIN q \cup {quartad} |-> IF k = quartad THEN 1 ELSE q[k]]

\* the position map the corpus is compiled with (main.rs: init_pos_map)
init_pos_map == get_position_map(INIT_LAYOUT)

\* characters the corpus is made of: 'a', 'n' (taps), 'c' (a swipe), ' ',
\* '!' (not on the keyboard) and U+00E9 (two bytes in UTF-8)
CorpusChars == {97, 110, 99, 32, 33, 233}

\* longest corpus, in characters
MaxLen == 4

RECURSIVE SeqsUpTo(_, _)
SeqsUpTo(S, n) ==
  IF n = 0 THEN {<< >>}
  ELSE LET shorter == SeqsUpTo(S, n - 1)
       IN  shorter \cup {Append(q, c) : q \in {r \in shorter : Len(r) = n - 1}, c \in S}

\* the corpus strings read from the corpus file
Corpora == {to_string(cs) : cs \in SeqsUpTo(CorpusChars, MaxLen)}

\* the Layouts handed to calculate_penalty
ScoredLayouts == {INIT_LAYOUT, RSINOA_LAYOUT}

\* INIT_LAYOUT after Layout::shuffle exchanged 'c' with the empty slot next
\* to 'k', and after it also exchanged 'z' with the empty slot on k's other
\* side
ShuffledOnce == swap(INIT_LAYOUT, 1, 10)

ShuffledTwice == swap(ShuffledOnce, 9, 12)

\* candidate Layouts whose swipe slots next to 'k' hold 0, 1 and 2 characters
SwipeLayouts == {INIT_LAYOUT, ShuffledOnce, ShuffledTwice}

\* position maps of the scored Layouts (calculate_penalty: layout.get_position_map())
position_map_of == [l \in ScoredLayouts \cup SwipeLayouts |-> get_position_map(l)]

(* ------------------------------------------------------------------ *)
(* State                                                              *)
(* ------------------------------------------------------------------ *)

VARIABLES
  command,      \* main.rs: "refine" draws neighbours, "run" shuffles
  swaps_arg,    \* the usize handed to LayoutPermutations::new
  orig_layout,  \* LayoutPermutations.orig_layout
  index,        \* LayoutPermutations.index
  item,         \* what the last call of next() returned
  self_layout,  \* the Layout that shuffle(&mut self, ..) works on
  from_layout,  \* the Layout it was cloned from
  times,        \* iterations of `for _ in 0..times` still to run
  pc,           \* "idle", "prepare", "score", "done" or "panic"
  corpus,         \* prepare_quartad_list: `string`, as UTF-8 bytes
  char_i,         \* prepare_quartad_list: `i`, characters taken from string.chars()
  range,          \* prepare_quartad_list: range.start, range.end
  quartads,       \* the HashMap<&str, usize> of the QuartadList
  scored_layout,  \* calculate_penalty: `layout`
  detailed_flag,  \* calculate_penalty: `detailed`
  total,          \* calculate_penalty: `total`
  result_vec,     \* calculate_penalty: `result`
  todo          \* calculate_penalty: keys the `for` loop has not visited

genVars == <<swaps_arg, orig_layout, index, item>>
shufVars == <<self_layout, from_layout, times>>
layoutVars == <<command, genVars, shufVars>>
prepVars == <<corpus, char_i, range, quartads>>
scoreVars == <<scored_layout, detailed_flag, total, result_vec, todo>>
penaltyVars == <<pc, prepVars, scoreVars>>

vars == <<layoutVars, penaltyVars>>

\* no call of next() yet
Unset == [tag |-> "Unset"]

\* LayoutPermutations.swaps
swaps == swaps_of[swaps_arg]

\* swap(i, j) followed by swap(i, k)
apply_swaps_wrong_pivot(layer, e) == swap(swap(layer, e[1], e[2]), e[1], e[3])

\* a hand-written rotation that never stores the saved character
apply_swaps_overwrite(layer, e) ==
  [layer EXCEPT ![e[1]] = layer[e[2]], ![e[2]] = layer[e[3]]]

\* `let (i, j, k) = self.swaps[self.index]; layer.swap(i, j); layer.swap(j, k);`
apply_swaps(layer, e) == swap(swap(layer, e[1], e[2]), e[2], e[3])

\* next() that keeps swapping the Layout it yielded before
next_on_previous(orig, sw, idx) ==
  IF idx = Len(sw)
    THEN [orig_layout |-> orig, index |-> idx, ret |-> None]
    ELSE LET current_layout == apply_swaps(orig, sw[idx + 1])
         IN  [orig_layout |-> current_layout, index |-> idx + 1,
              ret |-> Some(current_layout)]

\* impl Iterator for LayoutPermutations: fn next(&mut self) -> Option<Layout>
next(orig, sw, idx) ==
  IF idx = Len(sw)
    THEN [orig_layout |-> orig, index |-> idx, ret |-> None]
    ELSE LET current_layout == apply_swaps(orig, sw[idx + 1])
         IN  [orig_layout |-> orig, index |-> idx + 1,
              ret |-> Some(current_layout)]

\* values of random::<usize>() tried by the model
RandomUsize == {1, 8, 9, 11, 17, 36, 80, 89, 107}

\* the two draws reduced modulo the whole KeyMap
shuffle_pick_all_slots(ri, rj) == <<ri % KeyMapLen, rj % KeyMapLen>>

\* `i = random::<usize>() % 81; j = random::<usize>() % 81;`
shuffle_pick(ri, rj) == <<ri % LetterSlots, rj % LetterSlots>>

\* largest `times` handed to shuffle
MaxTimes == 3

(* ------------------------------------------------------------------ *)
(* Actions                                                            *)
(* ------------------------------------------------------------------ *)

\* LayoutPermutations::new(&INIT_LAYOUT, swaps) / INIT_LAYOUT.clone()
Init ==
  /\ command \in {"refine", "run"}
  /\ swaps_arg \in SwapsArgs
  /\ orig_layout = INIT_LAYOUT
  /\ index = 0
  /\ item = Unset
  /\ self_layout = INIT_LAYOUT
  /\ from_layout = INIT_LAYOUT
  /\ times \in IF command = "run" THEN 0..MaxTimes ELSE {0}
  /\ pc = "idle"
  /\ corpus = << >>
  /\ char_i = 0
  /\ range = [start |-> 0, end |-> 0]
  /\ quartads = << >>
  /\ scored_layout = INIT_LAYOUT
  /\ detailed_flag = FALSE
  /\ total = 0
  /\ result_vec = << >>
  /\ todo = {}

\* one call of LayoutPermutations::next
CallNext ==
  /\ command = "refine"
  /\ LET r == next(orig_layout, swaps, index)
     IN  /\ orig_layout' = r.orig_layout
         /\ index' = r.index
         /\ item' = r.ret
  /\ UNCHANGED <<command, swaps_arg, shufVars, penaltyVars>>

\* one iteration of the `for` loop of Layout::shuffle; the inner `loop`
\* redraws until both positions are of the same class
ShuffleIter ==
  /\ command = "run"
  /\ times > 0
  /\ \E ri \in RandomUsize, rj \in RandomUsize :
       LET ij == shuffle_pick(ri, rj)
       IN  /\ is_tap(ij[1]) = is_tap(ij[2])
           /\ self_layout' = swap(self_layout, ij[1], ij[2])
  /\ times' = times - 1
  /\ UNCHANGED <<command, genVars, from_layout, penaltyVars>>

Next == CallNext \/ ShuffleIter

Spec == Init /\ [][Next]_vars

\* main.rs run_ref/run/refine: prepare_quartad_list(s, &init_pos_map) is
\* entered with `range = 0..0` and an empty map; scored_layout is the Layout
\* that calculate_penalty will be handed; no generator and no shuffled Layout
\* exist yet
InitPenalty ==
  /\ command = "run-ref"
  /\ swaps_arg = 1
  /\ orig_layout = << >>
  /\ index = 0
  /\ item = Unset
  /\ self_layout = << >>
  /\ from_layout = << >>
  /\ times = 0
  /\ pc = "prepare"
  /\ corpus \in Corpora
  /\ char_i = 0
  /\ range = [start |-> 0, end |-> 0]
  /\ quartads = << >>
  /\ scored_layout \in ScoredLayouts
  /\ detailed_flag = FALSE
  /\ total = 0
  /\ result_vec = << >>
  /\ todo = {}

\* one iteration of `for (i, c) in string.chars().enumerate()`
PrepareChar ==
  /\ pc = "prepare"
  /\ char_i < Len(chars(corpus))
  /\ LET c == chars(corpus)[char_i + 1]
     IN  IF get_key_position(init_pos_map, c) # None
           THEN LET end == char_i + 1
                    start == clamp_start(range.start, end)
                    quartad == str_slice(corpus, start, end)
                IN  /\ range' = [start |-> start, end |-> end]
                    /\ IF quartad = None
                         THEN pc' = "panic" /\ UNCHANGED quartads
                         ELSE /\ quartads' = count_quartad(quartads, quartad.val)
                              /\ pc' = pc
           ELSE /\ range' = [start |-> char_i + 1, end |-> char_i + 1]
                /\ UNCHANGED <<pc, quartads>>
  /\ char_i' = char_i + 1
  /\ UNCHANGED <<corpus, scoreVars, layoutVars>>

\* prepare_quartad_list returns; calculate_penalty(&quartads, len, layout,
\* &penalties, detailed) runs up to its `for` loop
EnterCalculate ==
  /\ pc = "prepare"
  /\ char_i = Len(chars(corpus))
  /\ pc' = "score"
  /\ detailed_flag' \in BOOLEAN
  /\ result_vec' = new_result(detailed_flag')
  /\ total' = 0
  /\ todo' = DOMAIN quartads
  /\ UNCHANGED <<scored_layout, prepVars, layoutVars>>

\* one iteration of `for (string, count) in quartads`, in the HashMap's order
ScoreQuartad ==
  /\ pc = "score"
  /\ \E key \in todo :
       \E r \in {penalty_for_quartad(key, quartads[key], position_map_of[scored_layout],
                                     result_vec, detailed_flag, scored_layout)} :
           /\ todo' = todo \ {key}
           /\ IF r.panicked
                THEN pc' = "panic" /\ UNCHANGED <<total, result_vec>>
                ELSE /\ total' = total + r.total
                     /\ result_vec' = r.result
                     /\ pc' = pc
  /\ UNCHANGED <<scored_layout, detailed_flag, prepVars, layoutVars>>

\* calculate_penalty returns (total, total / len, result)
ReturnPenalty ==
  /\ pc = "score"
  /\ todo = {}
  /\ pc' = "done"
  /\ UNCHANGED <<prepVars, scoreVars, layoutVars>>

NextPenalty == PrepareChar \/ EnterCalculate \/ ScoreQuartad \/ ReturnPenalty

SpecPenalty == InitPenalty /\ [][NextPenalty]_vars

\* characters of the single-byte corpora: 'a' (a tap), 'c' (a swipe), ' '
\* and '!' (not on the keyboard)
AsciiChars == {97, 99, 32, 33}

\* longest single-byte corpus, in characters
MaxRun == 5

\* corpus files that hold single-byte characters only
AsciiCorpora == {to_string(cs) : cs \in SeqsUpTo(AsciiChars, MaxRun)}

\* prepare_quartad_list entered with a single-byte corpus
InitQuartads ==
  /\ command = "run-ref"
  /\ swaps_arg = 1
  /\ orig_layout = << >>
  /\ index = 0
  /\ item = Unset
  /\ self_layout = << >>
  /\ from_layout = << >>
  /\ times = 0
  /\ pc = "prepare"
  /\ corpus \in AsciiCorpora
  /\ char_i = 0
  /\ range = [start |-> 0, end |-> 0]
  /\ quartads = << >>
  /\ scored_layout = INIT_LAYOUT
  /\ detailed_flag = FALSE
  /\ total = 0
  /\ result_vec = << >>
  /\ todo = {}

NextQuartads == PrepareChar \/ EnterCalculate

SpecQuartads == InitQuartads /\ [][NextQuartads]_vars

\* characters of the corpora scored on shuffled Layouts: 'n' (column 0),
\* 'k' (column 1, a swipe), 'a' (column 2) and ' '
ScoreChars == {110, 107, 97, 32}

\* longest of these corpora, in characters
MaxWindow == 4

ScoreCorpora == {to_string(cs) : cs \in SeqsUpTo(ScoreChars, MaxWindow)}

\* the corpus is compiled and a candidate Layout is scored
InitScore ==
  /\ command = "run"
  /\ swaps_arg = 1
  /\ orig_layout = << >>
  /\ index = 0
  /\ item = Unset
  /\ self_layout = << >>
  /\ from_layout = << >>
  /\ times = 0
  /\ pc = "prepare"
  /\ corpus \in ScoreCorpora
  /\ char_i = 0
  /\ range = [start |-> 0, end |-> 0]
  /\ quartads = << >>
  /\ scored_layout \in SwipeLayouts
  /\ detailed_flag = FALSE
  /\ total = 0
  /\ result_vec = << >>
  /\ todo = {}

SpecScore == InitScore /\ [][NextPenalty]_vars

(* ------------------------------------------------------------------ *)
(* Properties of the neighbour generator and of shuffle               *)
(* ------------------------------------------------------------------ *)

Yielded == item.tag = "Some"

\* the entry the last call of next() applied
entry == swaps[index]

\* Layouts l and m hold every character equally often over the positions S.
\* Positions where l and m agree add the same to both counts, so the counts
\* are compared over the positions where they differ.
SameBag(l, m, S) ==
  LET D == {p \in S : l[p] # m[p]}
  IN  \A c \in {l[p] : p \in D} \cup {m[p] : p \in D} :
        Cardinality({p \in D : l[p] = c}) = Cardinality({p \in D : m[p] = c})

DiffSet(l, m) == {p \in Positions : l[p] # m[p]}

LetterPositions == 0..(LetterSlots - 1)

StructuralPositions == LetterSlots..(KeyMapLen - 1)

TapPositions == {p \in Positions : is_tap(p)}

SwipePositions == {p \in Positions : ~is_tap(p)}

\* N*(N-1)/2 for the N = 81 letter-bearing positions
UnorderedPairs == (LetterSlots * (LetterSlots - 1)) \div 2

\* l is base with exactly one pair of positions of 0..80 exchanged
OneSwapAway(l, base) ==
  \E a \in LetterPositions : \E b \in LetterPositions :
    a < b /\ l = swap(base, a, b)

\* C1 (as claimed): every yielded Layout is the base with one pair of
\* positions exchanged, and when next() returns None exactly N*(N-1)/2
\* Layouts were yielded.
C1_SingleSwapNeighbours ==
  /\ Yielded => OneSwapAway(item.val, orig_layout)
  /\ item.tag = "None" => index = UnorderedPairs

TripleCode(e) == (e[1] * LetterSlots + e[2]) * LetterSlots + e[3]

C6_PermutationOfBase ==
  Yielded => SameBag(item.val, orig_layout, Positions)

\* a yielded Layout in which three letters changed place
C6_Witness ==
  /\ Yielded
  /\ Cardinality(DiffSet(item.val, orig_layout)) = 3
  /\ \A p \in DiffSet(item.val, orig_layout) : item.val[p] # 0

\* C7: the applied triple lies in one tap/swipe class, and the characters at
\* tap positions, and those at swipe positions, are the base's.
C7_ClassPreserved ==
  Yielded =>
    /\ is_tap(entry[1]) = is_tap(entry[2])
    /\ is_tap(entry[2]) = is_tap(entry[3])
    /\ SameBag(item.val, orig_layout, TapPositions)
    /\ SameBag(item.val, orig_layout, SwipePositions)

\* a yielded Layout whose tap characters were rotated
C7_Witness ==
  /\ Yielded
  /\ is_tap(entry[1])
  /\ Cardinality(DiffSet(item.val, orig_layout) \cap TapPositions) = 3

LexLess(e, f) ==
  \/ e[1] < f[1]
  \/ e[1] = f[1] /\ e[2] < f[2]
  \/ e[1] = f[1] /\ e[2] = f[2] /\ e[3] < f[3]

\* the swap list of every constructor argument is strictly increasing
SwapsStrictlySorted ==
  \A n \in SwapsArgs :
    \A m \in 1..(Len(swaps_of[n]) - 1) : LexLess(swaps_of[n][m], swaps_of[n][m + 1])

\* C8: the swap list is strictly increasing; a call of next() with entries
\* left returns the entry at the cursor applied to the unchanged base and
\* moves the cursor by one; with none left it returns None and stays there.
C8_IterationProtocol ==
  /\ [](SwapsStrictlySorted /\ index <= Len(swaps))
  /\ [][command = "refine" =>
          /\ orig_layout' = orig_layout
          /\ index < Len(swaps) =>
               /\ index' = index + 1
               /\ item' = Some(apply_swaps(orig_layout, swaps[index + 1]))
          /\ index = Len(swaps) => index' = index /\ item' = None
          /\ item.tag = "None" => item' = None]_vars

\* the generator is exhausted
C8_Witness == item.tag = "None" /\ index = Len(swaps) /\ index > 0

\* C9: positions 81..107 of every yielded Layout hold what the base holds
\* there, and those of a shuffled Layout what it held before shuffling.
C9_StructuralSlotsFixed ==
  /\ Yielded => \A p \in StructuralPositions : item.val[p] = orig_layout[p]
  /\ \A p \in StructuralPositions : self_layout[p] = from_layout[p]

\* the last letter slot, next to the structural row, was moved
C9_Witness == Yielded /\ item.val[LetterSlots - 1] # orig_layout[LetterSlots - 1]

\* number of swaps of an entry that exchange two different positions
NSwaps(e) == IF e[2] = e[3] THEN 1 ELSE 2

InMap(c) == get_key_position(init_pos_map, c) # None

\* C3 (as claimed): no recorded window holds a character that is absent
\* from the position map.
C3_NoDelimiterInWindow ==
  \A key \in DOMAIN quartads :
    \A n \in 1..Len(chars(key)) : InMap(chars(key)[n])

\* C4 (as claimed): prepare_quartad_list never panics, whatever the corpus.
C4_NeverPanics == pc # "panic"

RECURSIVE SumTotals(_, _)
\* sum of the totals of the first n terms of a result vector
SumTotals(res, n) == IF n = 0 THEN 0 ELSE res[n].total + SumTotals(res, n - 1)

\* C5: with detailed = true the total of calculate_penalty is the sum of the
\* totals of its five terms, after every window folded in and on return.
C5_TotalIsSumOfTerms ==
  (pc \in {"score", "done"} /\ detailed_flag) =>
    /\ Len(result_vec) = 5
    /\ total = SumTotals(result_vec, 5)

\* a detailed score returned with a base, a travel and both bonus terms
C5_Witness ==
  /\ pc = "done"
  /\ detailed_flag
  /\ result_vec[1].total > 0
  /\ result_vec[3].total > 0
  /\ result_vec[4].total < 0
  /\ result_vec[5].total < 0

\* every byte of the string is a single-byte character
IsAscii(s) == \A n \in 1..Len(s) : s[n] < 128

RECURSIVE RunLen(_, _)
\* length of the maximal run of in-map characters of cs ending at index e
RunLen(cs, e) == IF e = 0 \/ ~InMap(cs[e]) THEN 0 ELSE 1 + RunLen(cs, e - 1)

\* the last min(4, r) characters ending at index e
RefWindow(cs, e) ==
  LET r == RunLen(cs, e)
      w == IF r < 4 THEN r ELSE 4
  IN  to_string(SubSeq(cs, e - w + 1, e))

\* the reference count over the first n characters of cs
RefTable(cs, n) ==
  LET E == {e \in 1..n : InMap(cs[e])}
  IN  [w \in {RefWindow(cs, e) : e \in E} |->
         Cardinality({e \in E : RefWindow(cs, e) = w})]

RECURSIVE SumCounts(_, _)
\* sum of the counts of the keys K of table q
SumCounts(q, K) ==
  IF K = {} THEN 0
  ELSE LET k == CHOOSE x \in K : TRUE IN q[k] + SumCounts(q, K \ {k})

\* C11: for a single-byte corpus the table built so far is the reference
\* count of the characters consumed: one window per in-map character, the
\* last min(4, r) characters of its run; keys have 1 to 4 characters, the
\* counts sum to the number of in-map characters, and an empty corpus gives
\* an empty table. The build does not fail.
C11_TableIsReferenceCount ==
  IsAscii(corpus) =>
    LET cs == chars(corpus)
    IN  /\ pc # "panic"
        /\ quartads = RefTable(cs, char_i)
        /\ \A key \in DOMAIN quartads : Len(chars(key)) \in 1..4
        /\ SumCounts(quartads, DOMAIN quartads)
             = Cardinality({e \in 1..char_i : InMap(cs[e])})
        /\ corpus = << >> => quartads = << >>

\* a run of five in-map characters was consumed: the window was clamped and
\* a four-character key counted twice
C11_Witness ==
  /\ pc = "score"
  /\ IsAscii(corpus)
  /\ char_i = 5
  /\ \E key \in DOMAIN quartads : Len(key) = 4 /\ quartads[key] = 2

\* number of keys a penalty term needs: base, swipe, travel, 3-key, 4-key
NeedsKeys == <<1, 1, 2, 3, 4>>

\* the window has at least k characters and its last k all have a position
Mapped(position_map, cs, k) ==
  /\ Len(cs) >= k
  /\ \A o \in 0..(k - 1) : get_key_position(position_map, cs[Len(cs) - o]) # None

\* what penalty_for_quartad gives for one window on a fresh detailed result
ScoreOf(key) ==
  penalty_for_quartad(key, quartads[key], position_map_of[scored_layout],
                      new_result(TRUE), TRUE, scored_layout)

\* the term was evaluated: it has an entry in its high_keys
Evaluated(r, term) == r.result[term].high_keys # << >>

\* some term needing k keys was evaluated
EvaluatedKeys(r, k) == \E term \in 1..5 : NeedsKeys[term] = k /\ Evaluated(r, term)

\* the windows calculate_penalty has folded in
Scored == DOMAIN quartads \ todo

\* C12: a term needing k keys is evaluated for a window only if the window
\* has k characters and its last k all map in the scored Layout's position
\* map; once the k-key terms are skipped no term needing more keys is
\* evaluated; a term not evaluated adds nothing; a window whose current
\* character does not map adds 0 to the total and to every term and does not
\* fail. This is stated of every window of the table when calculate_penalty
\* enters its loop (what a window gives does not depend on the windows folded
\* in before it); and at every later point each high_keys entry of the
\* detailed result is the k-character suffix of such a scored window.
C12_TermsSkippedByHistory ==
  pc = "score" =>
    LET pm == position_map_of[scored_layout]
    IN  /\ todo = DOMAIN quartads =>
             \A key \in DOMAIN quartads :
               LET r == ScoreOf(key)
                   cs == chars(key)
               IN  /\ \A term \in 1..5 :
                         /\ Evaluated(r, term) => Mapped(pm, cs, NeedsKeys[term])
                         /\ ~Evaluated(r, term) => r.result[term].total = 0
                   /\ \A k \in 1..3 : \A j \in (k + 1)..4 :
                         ~EvaluatedKeys(r, k) => ~EvaluatedKeys(r, j)
                   /\ ~Mapped(pm, cs, 1) =>
                         /\ r.total = 0
                         /\ r.result = new_result(TRUE)
                         /\ ~r.panicked
        /\ detailed_flag =>
             \A term \in 1..5 : \A slice \in DOMAIN result_vec[term].high_keys :
               \E key \in Scored :
                 /\ Mapped(pm, chars(key), NeedsKeys[term])
                 /\ Len(chars(slice)) = NeedsKeys[term]
                 /\ slice = SubSeq(key, Len(key) - Len(slice) + 1, Len(key))

\* scored: a window whose current character does not map, a window whose
\* previous character does not map
C12_Witness ==
  /\ pc = "score"
  /\ detailed_flag
  /\ \E key \in Scored : ~Mapped(position_map_of[scored_layout], chars(key), 1)
  /\ \E key \in Scored :
       /\ Len(chars(key)) = 2
       /\ EvaluatedKeys(ScoreOf(key), 1)
       /\ ~EvaluatedKeys(ScoreOf(key), 2)

\* the two swipe slots beside direction d of a cell that hold a character
OccupiedBeside(l, cell, d) ==
  {x \in {cell * SubPositions + ((d + 1) % 8), cell * SubPositions + ((d + 7) % 8)} :
     l[x] # 0}

\* 2/8, 5/8 and 8/8 for two, one and no occupied neighbour
WidthFor(occupied) == ((8 - 3 * occupied) * UNIT) \div 8

\* for every swipe position and every candidate Layout: the inspected slots
\* lie in the KeyMap, in the cell of the swipe, at directions d+1 and d+7
\* modulo 8; the width is 2/8, 5/8 or 8/8 by the number of occupied
\* neighbours; a Layout with fewer of them occupied has no smaller width
SwipeDetailsByNeighbours ==
  \A p \in SwipePositions :
    LET old1 == [pos |-> p]
        d == p % SubPositions
        cell == p \div SubPositions
    IN  /\ d \in 0..7
        /\ \A slot \in {next_slot(old1), prev_slot(old1)} :
             /\ slot \in Positions
             /\ slot \div SubPositions = cell
             /\ slot % SubPositions # TapSub
        /\ next_slot(old1) % SubPositions = (d + 1) % 8
        /\ prev_slot(old1) % SubPositions = (d + 7) % 8
        /\ \A l \in ScoredLayouts \cup SwipeLayouts :
             /\ get_swipe_details(old1, l)[2]
                  = WidthFor(Cardinality(OccupiedBeside(l, cell, d)))
             /\ get_swipe_details(old1, l)[2] \in {250, 625, 1000}
             /\ \A m \in ScoredLayouts \cup SwipeLayouts :
                  OccupiedBeside(m, cell, d) \subseteq OccupiedBeside(l, cell, d)
                    => get_swipe_details(old1, m)[2] >= get_swipe_details(old1, l)[2]

\* the travel term of a window whose last two characters map: after a tap
\* Fitts' law from key to key, after a swipe the swipe itself at the width
\* its neighbours give, then Fitts' law from the end of the swipe
TravelByPreviousKey(key) ==
  LET pm == position_map_of[scored_layout]
      cs == chars(key)
      curr == get_key_position(pm, cs[Len(cs)]).val
      old1 == get_key_position(pm, cs[Len(cs) - 1]).val
      width == WidthFor(Cardinality(OccupiedBeside(scored_layout,
                                                   old1.pos \div SubPositions,
                                                   old1.pos % SubPositions)))
      travel == ScoreOf(key).result[3].total
  IN  IF old1.pos % SubPositions = TapSub
        THEN travel = quartads[key]
                        * fitts_law(distance(get_coordinates(old1), get_coordinates(curr)),
                                    UNIT)
        ELSE travel = quartads[key]
                        * (fitts_law(D_SWIPE, width) - A
                           + fitts_law(distance(get_swipe_details(old1, scored_layout)[1],
                                                get_coordinates(curr)), UNIT))

\* C13: get_swipe_details inspects the two swipe slots of the same cell at
\* directions (d+1) mod 8 and (d+7) mod 8 and returns the width 2/8, 5/8 or
\* 8/8 when both, one or none of them holds a character, so emptying a
\* neighbour never narrows it; the travel term uses it only when the
\* previous key is a swipe (stated of every window of the table when
\* calculate_penalty enters its loop).
C13_SwipeWidthByNeighbours ==
  /\ SwipeDetailsByNeighbours
  /\ (pc = "score" /\ todo = DOMAIN quartads) =>
       \A key \in DOMAIN quartads :
         Mapped(position_map_of[scored_layout], chars(key), 2) => TravelByPreviousKey(key)

\* a window ending in the swipe 'k' and a tap was scored on the Layout where
\* both neighbours of 'k' are occupied
C13_Witness ==
  /\ pc = "score"
  /\ detailed_flag
  /\ scored_layout = ShuffledTwice
  /\ Cardinality(OccupiedBeside(scored_layout, 1, 2)) = 2
  /\ \E key \in Scored :
       /\ key = <<107, 97>>
       /\ <<107, 97>> \in DOMAIN result_vec[3].high_keys
       /\ get_swipe_details(get_key_position(position_map_of[scored_layout], 107).val,
                            scored_layout)[2] = 250

\* columns of the last k characters of a window, oldest first
ColumnsOf(position_map, cs, k) ==
  [n \in 1..k |-> (get_key_position(position_map, cs[Len(cs) - k + n]).val.pos
                     \div SubPositions) % 3]

\* the thumbs that can type a column: 0 the left, 2 the right, 1 either
ThumbsOf(column) == IF column = 0 THEN {"L"} ELSE IF column = 2 THEN {"R"} ELSE {"L", "R"}

\* some assignment of thumbs to the keys strictly alternates
CanAlternate(cols) ==
  \E h \in [DOMAIN cols -> {"L", "R"}] :
    /\ \A n \in DOMAIN cols : h[n] \in ThumbsOf(cols[n])
    /\ \A n \in 1..(Len(cols) - 1) : h[n] # h[n + 1]

\* the last k characters of the window earn the alternation bonus
EarnsBonus(position_map, cs, k) ==
  /\ Mapped(position_map, cs, k)
  /\ \A o \in 0..(k - 1) : cs[Len(cs) - o] # 32
  /\ LET cols == ColumnsOf(position_map, cs, k)
     IN  /\ \A n \in 1..(k - 1) : cols[n] # cols[n + 1]
         /\ CanAlternate(cols)

\* C14: the 3-key term of a window is -LENGTH_3_ALTERNATION_BONUS * count
\* when its last 3 characters hold no space, adjacent keys lie in different
\* columns and some thumb assignment strictly alternates (the columns are not
\* the sweep 0,1,2 or 2,1,0), and 0 otherwise; the 4-key term likewise with
\* LENGTH_4_ALTERNATION_BONUS over the last 4 characters; a bonus is never
\* doubled and no bonus term is ever positive (stated of every window of the
\* table when calculate_penalty enters its loop, and of the accumulated
\* terms at every later point).
C14_AlternationBonus ==
  pc = "score" =>
    LET pm == position_map_of[scored_layout]
    IN  /\ todo = DOMAIN quartads =>
             \A key \in DOMAIN quartads :
               LET r == ScoreOf(key)
                   cs == chars(key)
               IN  /\ r.result[4].total =
                        IF EarnsBonus(pm, cs, 3)
                          THEN 0 - LENGTH_3_ALTERNATION_BONUS * quartads[key] ELSE 0
                   /\ r.result[5].total =
                        IF EarnsBonus(pm, cs, 4)
                          THEN 0 - LENGTH_4_ALTERNATION_BONUS * quartads[key] ELSE 0
                   /\ EarnsBonus(pm, cs, 3) =>
                        ColumnsOf(pm, cs, 3) \notin {<<0, 1, 2>>, <<2, 1, 0>>}
                   /\ (/\ Mapped(pm, cs, 3)
                       /\ \A o \in 0..2 : cs[Len(cs) - o] # 32
                       /\ ColumnsOf(pm, cs, 3)[1] # ColumnsOf(pm, cs, 3)[2]
                       /\ ColumnsOf(pm, cs, 3)[2] # ColumnsOf(pm, cs, 3)[3]
                       /\ ColumnsOf(pm, cs, 3) \notin {<<0, 1, 2>>, <<2, 1, 0>>})
                        => EarnsBonus(pm, cs, 3)
        /\ detailed_flag =>
             /\ result_vec[4].total <= 0
             /\ result_vec[5].total <= 0
             /\ \A slice \in DOMAIN result_vec[4].high_keys :
                  result_vec[4].high_keys[slice] <= 0
             /\ \A slice \in DOMAIN result_vec[5].high_keys :
                  result_vec[5].high_keys[slice] <= 0

\* the window "nkna" (columns 0, 1, 0, 2) was scored and earned both bonuses
C14_Witness ==
  /\ pc = "score"
  /\ detailed_flag
  /\ <<110, 107, 110, 97>> \in Scored
  /\ result_vec[4].high_keys[<<107, 110, 97>>] = 0 - LENGTH_3_ALTERNATION_BONUS
  /\ result_vec[5].high_keys[<<110, 107, 110, 97>>] = 0 - LENGTH_4_ALTERNATION_BONUS

====
